---- MODULE Spec2Model ----
(***************************************************************************)
(* Model of the UniShop IA service's SemanticClassifier                    *)
(* (ia-service/src/semantic_classifier.py).                                *)
(*                                                                         *)
(* Texts are TLA+ strings; similarity scores, thresholds and confidences   *)
(* are integers in hundredths (0.8 is 80, 0.3 is 30, 0.25 is 25).          *)
(* An embedding is represented by the cosine similarities it has to the    *)
(* stored category vectors; a failing encode() is the value EncodeError.   *)
(***************************************************************************)
EXTENDS Integers, Sequences, FiniteSets, TLC

VARIABLES SEMANTIC_AVAILABLE, model, category_embeddings, pc, call,
          init_failed,   \* history: the backend was unavailable or raised in __init__
          call_failed,   \* history: some call has caught a failing encode
          requests,      \* main.py: the HTTP requests in flight and where each is
          running        \* main.py: the request whose handler runs on the event loop

vars == <<SEMANTIC_AVAILABLE, model, category_embeddings, pc, call,
          init_failed, call_failed, requests, running>>

(***************************************************************************)
(* Bounds                                                                  *)
(***************************************************************************)
MaxBooks == 6

MaxRequests == 2

(***************************************************************************)
(* Python values                                                           *)
(***************************************************************************)
None == "None"

\* outcome of self.model.encode(text): it raised, or it returned a vector
EncodeError == [ok |-> FALSE]

Encoded(vector) == [ok |-> TRUE, vector |-> vector]

(***************************************************************************)
(* str.lower(), the `in` substring test and str.strip()                    *)
(***************************************************************************)
UpperToLower ==
  [c \in {"A","B","C","D","E","F","G","H","I","J","K","L","M","N","O","P",
          "Q","R","S","T","U","V","W","X","Y","Z","Á","É","Í","Ó","Ú","Ñ"} |->
     CASE c = "A" -> "a" [] c = "B" -> "b" [] c = "C" -> "c" [] c = "D" -> "d"
       [] c = "E" -> "e" [] c = "F" -> "f" [] c = "G" -> "g" [] c = "H" -> "h"
       [] c = "I" -> "i" [] c = "J" -> "j" [] c = "K" -> "k" [] c = "L" -> "l"
       [] c = "M" -> "m" [] c = "N" -> "n" [] c = "O" -> "o" [] c = "P" -> "p"
       [] c = "Q" -> "q" [] c = "R" -> "r" [] c = "S" -> "s" [] c = "T" -> "t"
       [] c = "U" -> "u" [] c = "V" -> "v" [] c = "W" -> "w" [] c = "X" -> "x"
       [] c = "Y" -> "y" [] c = "Z" -> "z" [] c = "Á" -> "á" [] c = "É" -> "é"
       [] c = "Í" -> "í" [] c = "Ó" -> "ó" [] c = "Ú" -> "ú" [] c = "Ñ" -> "ñ"]

RECURSIVE Lower(_)
Lower(s) ==
  IF s = "" THEN ""
  ELSE LET c == SubSeq(s, 1, 1)
       IN (IF c \in DOMAIN UpperToLower THEN UpperToLower[c] ELSE c)
            \o Lower(SubSeq(s, 2, Len(s)))

\* Python's  k in s  on strings
Contains(k, s) ==
  \E i \in 1..(Len(s) - Len(k) + 1) : SubSeq(s, i, i + Len(k) - 1) = k

\* s.strip() is the empty string
IsBlank(s) == \A i \in 1..Len(s) : SubSeq(s, i, i) = " "

\* any(keyword in text for keyword in keywords)
AnyKeywordIn(keywords, text) ==
  \E j \in 1..Len(keywords) : Contains(keywords[j], text)

(***************************************************************************)
(* Knowledge base built by __init__                                        *)
(***************************************************************************)
\* keys of self.academic_categories, in insertion order
CategoryOrder ==
  <<"ingenieria_software", "enfermeria", "medicina", "odontologia",
    "derecho", "matematicas", "administracion">>

Categories == {CategoryOrder[i] : i \in 1..Len(CategoryOrder)}

academic_categories ==
  [c \in Categories |->
     CASE c = "ingenieria_software" ->
            <<"ingeniería de software", "desarrollo de software", "programación", "algoritmos",
              "estructuras de datos", "bases de datos", "sistemas operativos", "redes",
              "seguridad informática", "inteligencia artificial", "machine learning",
              "python", "java", "javascript", "c++", "desarrollo web", "desarrollo móvil",
              "devops", "cloud computing", "álgebra lineal", "cálculo integral",
              "física mecánica", "ingeniería de requisitos", "aspectos administrativos",
              "clean code", "design patterns", "introduction to algorithms">>
       [] c = "enfermeria" ->
            <<"enfermería", "cuidados de enfermería", "historia del cuidado", "sociología del cuidado",
              "antropología del cuidado", "sistemas de soporte", "biogenética", "procesos bioquímicos",
              "farmacocinética", "farmacodinamia", "cuidados al adulto", "vigilancia epidemiológica",
              "gerencia del cuidado", "fundamentos de enfermería", "farmacología en enfermería",
              "semiología médica", "bioquímica médica", "microbiología médica", "psicología en enfermería">>
       [] c = "medicina" ->
            <<"medicina", "semiología clínica", "ayudas diagnósticas", "deontología médica",
              "investigación médica", "inglés médico", "harrison", "guyton", "fisiología médica",
              "patología general", "robbins", "semiología médica", "farmacología básica",
              "katzung", "medicina interna", "pediatría", "cirugía", "ginecología">>
       [] c = "odontologia" ->
            <<"odontología", "salud oral", "cirugía maxilofacial", "promoción de salud",
              "prevención en salud", "patología oral", "bases quirúrgicas", "cariología",
              "semiología", "farmacoterapia odontológica", "urgencias odontológicas",
              "patología oral y maxilofacial", "nevilla", "periodontología", "carranza",
              "endodoncia", "ingle", "ortodoncia", "proffit", "cirugía oral">>
       [] c = "derecho" ->
            <<"derecho", "teoría del estado", "derechos humanos", "DIH", "constitución",
              "derecho civil", "derecho penal", "derecho procesal", "derecho laboral",
              "seguridad social", "derecho administrativo", "derecho comercial",
              "consultorio jurídico", "teoría del estado", "kelsen", "derecho constitucional",
              "aragón", "derecho penal", "zaffaroni", "derecho civil", "ospina",
              "derecho procesal", "palacio", "derecho internacional", "remiro">>
       [] c = "matematicas" ->
            <<"matemáticas", "cálculo", "álgebra", "geometría", "estadística", "probabilidad",
              "álgebra lineal", "cálculo integral", "física mecánica">>
       [] c = "administracion" ->
            <<"administración", "contabilidad", "finanzas", "marketing", "economía",
              "gestión empresarial", "emprendimiento", "recursos humanos">>]

\* keys of self.student_scenarios, in insertion order
ScenarioOrder ==
  <<"pregrado_inicio", "práctica_laboratorio", "investigación",
    "profesionalización", "especialización">>

student_scenarios ==
  [s \in {ScenarioOrder[i] : i \in 1..Len(ScenarioOrder)} |->
     CASE s = "pregrado_inicio" ->
            <<"primer semestre", "inicio de carrera", "principiante", "básico">>
       [] s = "práctica_laboratorio" ->
            <<"práctica", "laboratorio", "experimentos", "práctica clínica">>
       [] s = "investigación" ->
            <<"tesis", "investigación", "proyecto de grado", "monografía">>
       [] s = "profesionalización" ->
            <<"empleo", "práctica profesional", "pasantía", "empleabilidad">>
       [] s = "especialización" ->
            <<"especialización", "maestría", "posgrado", "doctorado">>]

(***************************************************************************)
(* _rule_based_classification                                              *)
(***************************************************************************)
\* keys of the local dict  rules, in insertion order
RuleOrder ==
  <<"medicina", "ingenieria_software", "matematicas", "derecho", "administracion">>

rules ==
  [c \in {RuleOrder[i] : i \in 1..Len(RuleOrder)} |->
     CASE c = "medicina" ->
            <<"medicina", "anatomía", "fisiología", "patología", "cardiología",
              "enfermería", "clínica", "hospital", "paciente", "diagnóstico">>
       [] c = "ingenieria_software" ->
            <<"programación", "python", "java", "javascript", "algoritmo",
              "software", "desarrollo", "código", "programar">>
       [] c = "matematicas" ->
            <<"cálculo", "álgebra", "geometría", "ecuaciones", "matemáticas">>
       [] c = "derecho" ->
            <<"derecho", "jurídico", "ley", "constitucional", "penal", "civil">>
       [] c = "administracion" ->
            <<"administración", "contabilidad", "finanzas", "marketing", "empresa">>]

\* confidence returned for a rule match (0.8)
RuleConfidence == 80

RECURSIVE RuleLoop(_, _)
RuleLoop(query_lower, i) ==
  IF i > Len(RuleOrder) THEN <<None, 0>>
  ELSE IF AnyKeywordIn(rules[RuleOrder[i]], query_lower)
       THEN <<RuleOrder[i], RuleConfidence>>
       ELSE RuleLoop(query_lower, i + 1)

\* variant: the query is matched as typed
rule_based_classification_as_typed(query) == RuleLoop(query, 1)

rule_based_classification(query) == RuleLoop(Lower(query), 1)

(***************************************************************************)
(* Inputs of the calls                                                     *)
(***************************************************************************)
Queries ==
  {"necesito un libro de programación en python",
   "hola",
   "",
   "DERECHO PENAL",
   "ÁLGEBRA y leyes de la empresa",
   "Anatomía para programar"}

\* 0.3 is the default threshold of classify_academic_query
Thresholds == {-50, 0, 30, 90}

\* cosine similarities, in hundredths
Scores == {-40, 0, 50}

\* the vectors self.model.encode(text) can return, each given by its cosine
\* similarity to every stored category vector
Embeddings == {Encoded(v) : v \in [Categories -> Scores]}

(***************************************************************************)
(* classify_academic_query                                                 *)
(***************************************************************************)
\* cosine_similarity([query_embedding], [category_embedding])[0][0]
cosine_similarity(embedding, category) == embedding.vector[category]

\* best_similarity = 0.0
InitialBestSimilarity == 0

\* the test  similarity > best_similarity
BetterThanBest(similarity, best_similarity) == similarity > best_similarity

RECURSIVE BestLoop(_, _, _, _, _)
BestLoop(store, query_embedding, i, best_category, best_similarity) ==
  IF i > Len(store) THEN <<best_category, best_similarity>>
  ELSE LET similarity == cosine_similarity(query_embedding, store[i])
       IN IF BetterThanBest(similarity, best_similarity)
          THEN BestLoop(store, query_embedding, i + 1, store[i], similarity)
          ELSE BestLoop(store, query_embedding, i + 1, best_category, best_similarity)

\* variant: the running maximum starts at -1.0, below every similarity
ClassifyVector_from_lowest(store, encoded, threshold) ==
  LET best == BestLoop(store, encoded, 1, None, -100)
  IN IF best[2] >= threshold THEN <<best[1], best[2]>> ELSE <<None, best[2]>>

\* the try block: encoded is the outcome of self.model.encode(query)
ClassifyVector(store, encoded, threshold) ==
  LET best == BestLoop(store, encoded, 1, None, InitialBestSimilarity)
  IN IF best[2] >= threshold THEN <<best[1], best[2]>> ELSE <<None, best[2]>>

classify_academic_query(sem, mdl, store, query, threshold, encoded) ==
  IF ~sem \/ mdl = None
  THEN [result |-> rule_based_classification(query), path |-> "rule",
        encode_calls |-> 0, log |-> <<>>]
  ELSE IF ~encoded.ok
       THEN [result |-> rule_based_classification(query), path |-> "fallback",
             encode_calls |-> 1, log |-> <<"error">>]
       ELSE [result |-> ClassifyVector(store, encoded, threshold), path |-> "vector",
             encode_calls |-> 1, log |-> <<>>]

(***************************************************************************)
(* detect_student_scenario                                                 *)
(***************************************************************************)
RECURSIVE ScenarioLoop(_, _)
ScenarioLoop(query_lower, i) ==
  IF i > Len(ScenarioOrder) THEN None
  ELSE IF AnyKeywordIn(student_scenarios[ScenarioOrder[i]], query_lower)
       THEN ScenarioOrder[i]
       ELSE ScenarioLoop(query_lower, i + 1)

\* variant: the query is matched as typed
detect_student_scenario_as_typed(query) == ScenarioLoop(query, 1)

detect_student_scenario(query) == ScenarioLoop(Lower(query), 1)

\* every keyword of every scenario
ScenarioKeywords ==
  UNION {{student_scenarios[sc][j] : j \in 1..Len(student_scenarios[sc])} :
           sc \in DOMAIN student_scenarios}

\* queries given to detect_student_scenario
DetectQueries ==
  Queries \cup ScenarioKeywords \cup {"TESIS de Maestría", "busco un LABORATORIO"}

(***************************************************************************)
(* get_contextual_recommendations                                          *)
(***************************************************************************)
related_subjects(category) ==
  CASE category = "ingenieria_software" ->
         <<"Algoritmos", "Estructuras de Datos", "Bases de Datos">>
    [] category = "enfermeria" -> <<"Cuidados Básicos", "Farmacología", "Semiología">>
    [] category = "medicina" -> <<"Semiología", "Fisiología", "Farmacología">>
    [] category = "odontologia" -> <<"Patología Oral", "Cirugía", "Periodoncia">>
    [] category = "derecho" -> <<"Constitucional", "Penal", "Civil">>
    [] OTHER -> <<>>

typical_products(category) ==
  CASE category = "ingenieria_software" ->
         <<"Libros de programación", "Licencias de software", "Equipos de desarrollo">>
    [] category = "enfermeria" ->
         <<"Estetoscopios", "Esfigmomanómetros", "Kits de venopunción">>
    [] category = "medicina" -> <<"Estetoscopios", "Otoscopios", "Kits de diagnóstico">>
    [] category = "odontologia" ->
         <<"Equipos odontológicos", "Instrumental quirúrgico", "Modelos anatómicos">>
    [] category = "derecho" ->
         <<"Códigos civiles", "Gacetas judiciales", "Software jurídico">>
    [] OTHER -> <<>>

tips(category, scenario) ==
  CASE category = "ingenieria_software" /\ scenario = "pregrado_inicio" ->
         <<"Comienza con fundamentos de programación",
           "No te preocupes si eres principiante, todos empezamos así",
           "Busca libros como 'Clean Code' para buenas prácticas">>
    [] category = "ingenieria_software" /\ scenario = "práctica_laboratorio" ->
         <<"Necesitarás una buena laptop para desarrollo",
           "Considera equipos como Raspberry Pi para IoT",
           "Busca licencias de IDEs y software de desarrollo">>
    [] category = "enfermeria" /\ scenario = "práctica_laboratorio" ->
         <<"Busca maniquíes de práctica para simulación",
           "Los equipos de monitoreo vital son esenciales",
           "Considera libros de farmacología para enfermería">>
    [] category = "medicina" /\ scenario = "investigación" ->
         <<"Busca libros de investigación médica",
           "Considera equipos para ayudas diagnósticas",
           "Material de inglés médico puede ser útil">>
    [] category = "odontologia" /\ scenario = "práctica_laboratorio" ->
         <<"Busca turbinas y micromotores para práctica",
           "Los esterilizadores son indispensables",
           "Considera software de planificación dental">>
    [] category = "derecho" /\ scenario = "profesionalización" ->
         <<"Busca oportunidades de consultorio jurídico",
           "Considera equipos de audio para grabaciones",
           "Bases de datos legales son muy útiles">>
    [] OTHER -> <<>>

\* variant: the category-level lists are filled in only together with tips
get_contextual_recommendations_tips_only(category, scenario) ==
  LET found == tips(category, scenario) # <<>>
  IN [category |-> category, scenario |-> scenario, tips |-> tips(category, scenario),
      related_subjects |-> IF found THEN related_subjects(category) ELSE <<>>,
      typical_products |-> IF found THEN typical_products(category) ELSE <<>>]

get_contextual_recommendations(category, scenario) ==
  [category |-> category, scenario |-> scenario, tips |-> tips(category, scenario),
   related_subjects |-> related_subjects(category),
   typical_products |-> typical_products(category)]

(***************************************************************************)
(* Catalog items: Python dicts, modelled as functions from field names.    *)
(* The objects of a call live in a heap (a sequence indexed by object      *)
(* identity); the caller's list  books  holds the objects 1..Len(books).   *)
(***************************************************************************)
Catalog ==
  {[id |-> 1, name |-> "Harrison", description |-> "Principios de Medicina Interna"],
   [id |-> 2],
   [id |-> 3, name |-> "Tratado de dih", description |-> "Convenios de Ginebra",
    _semantic_score |-> 99]}

RECURSIVE SeqsUpTo(_, _)
SeqsUpTo(S, n) ==
  IF n = 0 THEN {<<>>}
  ELSE LET shorter == SeqsUpTo(S, n - 1)
       IN shorter \cup {Append(q, x) : q \in {r \in shorter : Len(r) = n - 1}, x \in S}

BookLists == SeqsUpTo(Catalog, MaxBooks)

TargetCategories == {"medicina", "derecho", "unknown_category"}

\* 0.25 is the default threshold of find_books_by_semantic_category
BookThresholds == {25, 50}

BookScores == {30, 60}

\* dict.get(field, default)
Get(book, field, default) == IF field \in DOMAIN book THEN book[field] ELSE default

\* f"{book.get('name', '')} {book.get('description', '')}"
BookText(book) == Get(book, "name", "") \o " " \o Get(book, "description", "")

CatalogTexts == {BookText(b) : b \in Catalog}

\* vectors returned for item texts; only the similarity to the target
\* category is ever read from them
BookOutcomes ==
  {EncodeError} \cup {Encoded([c \in Categories |-> sc]) : sc \in BookScores}

\* variant: no copy, the score is attached to the caller's object
CopyBook_alias(heap, id) == [heap |-> heap, id |-> id]

\* book_with_score = book.copy(): a new object with the same fields
CopyBook(heap, id) == [heap |-> Append(heap, heap[id]), id |-> Len(heap) + 1]

\* book_with_score['_semantic_score'] = similarity
SetScore(book, similarity) ==
  [f \in DOMAIN book \cup {"_semantic_score"} |->
     IF f = "_semantic_score" THEN similarity ELSE book[f]]

\* book.pop('_semantic_score', None)
PopScore(book) == [f \in DOMAIN book \ {"_semantic_score"} |-> book[f]]

\* variant: the comparison is turned around
PassesThreshold_reversed(similarity, threshold) == similarity <= threshold

\* the test  similarity >= threshold
PassesThreshold(similarity, threshold) == similarity >= threshold

\* variant: the slice is left out
Top5_uncut(s) == s

\* matching_books[:5]
Top5(s) == SubSeq(s, 1, IF Len(s) < 5 THEN Len(s) ELSE 5)

(***************************************************************************)
(* _rule_based_book_filter                                                 *)
(***************************************************************************)
\* variant: the keyword is not lowered
AnyLowerKeywordIn_as_written(keywords, book_text) ==
  \E j \in 1..Len(keywords) : Contains(keywords[j], book_text)

\* any(keyword.lower() in book_text for keyword in keywords)
AnyLowerKeywordIn(keywords, book_text) ==
  \E j \in 1..Len(keywords) : Contains(Lower(keywords[j]), book_text)

\* the test of the filter loop, tabulated for the texts of the catalog
RuleHit ==
  [t \in CatalogTexts |->
     [c \in Categories |-> AnyLowerKeywordIn(academic_categories[c], Lower(t))]]

RECURSIVE RuleFilterLoop(_, _, _, _, _)
RuleFilterLoop(heap, n, i, target_category, matching) ==
  IF i > n THEN matching
  ELSE RuleFilterLoop(heap, n, i + 1, target_category,
         IF RuleHit[BookText(heap[i])][target_category]
         THEN Append(matching, [id |-> i, src |-> i])
         ELSE matching)

\* returns the matching objects (the input objects themselves)
rule_based_book_filter(heap, n, target_category) ==
  IF target_category \notin DOMAIN academic_categories
  THEN <<>>
  ELSE Top5(RuleFilterLoop(heap, n, 1, target_category, <<>>))

(***************************************************************************)
(* find_books_by_semantic_category                                         *)
(***************************************************************************)
\* the for loop of the try block; encode gives the outcome of
\* self.model.encode(book_text) for every text
RECURSIVE MatchLoop(_, _, _, _, _, _, _, _)
MatchLoop(heap, n, i, target_category, threshold, encode, matching, calls) ==
  IF i > n
  THEN [raised |-> FALSE, heap |-> heap, matching |-> matching, encode_calls |-> calls]
  ELSE LET book_text == BookText(heap[i])
       IN IF IsBlank(book_text)
          THEN MatchLoop(heap, n, i + 1, target_category, threshold, encode,
                         matching, calls)
          ELSE IF ~encode[book_text].ok
          THEN [raised |-> TRUE, heap |-> heap, matching |-> matching,
                encode_calls |-> calls + 1]
          ELSE LET similarity == cosine_similarity(encode[book_text], target_category)
               IN IF PassesThreshold(similarity, threshold)
                  THEN LET c == CopyBook(heap, i)
                           h == [c.heap EXCEPT ![c.id] = SetScore(@, similarity)]
                       IN MatchLoop(h, n, i + 1, target_category, threshold, encode,
                                    Append(matching, [id |-> c.id, src |-> i]),
                                    calls + 1)
                  ELSE MatchLoop(heap, n, i + 1, target_category, threshold, encode,
                                 matching, calls + 1)

\* x.get('_semantic_score', 0)
SortKey(heap, m) == Get(heap[m.id], "_semantic_score", 0)

\* variant: an element goes in front of the elements with an equal key
InsertSorted_before_equals(heap, sorted, m) ==
  LET notgreater == {j \in 1..Len(sorted) : SortKey(heap, sorted[j]) <= SortKey(heap, m)}
      at == IF notgreater = {} THEN Len(sorted) + 1
            ELSE CHOOSE j \in notgreater : \A k \in notgreater : j <= k
  IN SubSeq(sorted, 1, at - 1) \o <<m>> \o SubSeq(sorted, at, Len(sorted))

\* position of m in a list already sorted by descending key: behind every
\* element whose key is not smaller (list.sort is stable, also with reverse)
InsertSorted(heap, sorted, m) ==
  LET smaller == {j \in 1..Len(sorted) : SortKey(heap, sorted[j]) < SortKey(heap, m)}
      at == IF smaller = {} THEN Len(sorted) + 1
            ELSE CHOOSE j \in smaller : \A k \in smaller : j <= k
  IN SubSeq(sorted, 1, at - 1) \o <<m>> \o SubSeq(sorted, at, Len(sorted))

\* matching_books.sort(key=lambda x: x.get('_semantic_score', 0), reverse=True)
RECURSIVE SortByScore(_, _, _, _)
SortByScore(heap, matching, i, sorted) ==
  IF i > Len(matching) THEN sorted
  ELSE SortByScore(heap, matching, i + 1, InsertSorted(heap, sorted, matching[i]))

\* for book in matching_books: book.pop('_semantic_score', None)
RECURSIVE PopAll(_, _, _)
PopAll(heap, matching, i) ==
  IF i > Len(matching) THEN heap
  ELSE PopAll([heap EXCEPT ![matching[i].id] = PopScore(@)], matching, i + 1)

\* what a call leaves behind: the returned objects, their field values, the
\* input objects they stem from, and the field values of the input objects
Outcome(heap, n, returned, path, log, calls) ==
  [result |-> [j \in 1..Len(returned) |-> heap[returned[j].id]],
   result_ids |-> [j \in 1..Len(returned) |-> returned[j].id],
   origin |-> [j \in 1..Len(returned) |-> returned[j].src],
   books_after |-> [j \in 1..n |-> heap[j]],
   path |-> path, log |-> log, encode_calls |-> calls]

find_books_by_semantic_category(sem, mdl, store, books, target_category, threshold, encode) ==
  LET n == Len(books)
      InStore == \E k \in 1..Len(store) : store[k] = target_category
  IN IF ~sem \/ mdl = None
     THEN Outcome(books, n, rule_based_book_filter(books, n, target_category),
                  "rule", <<>>, 0)
     ELSE IF ~InStore
     THEN Outcome(books, n, <<>>, "unknown", <<"warning">>, 0)
     ELSE LET loop == MatchLoop(books, n, 1, target_category, threshold, encode, <<>>, 0)
          IN IF loop.raised
             THEN Outcome(loop.heap, n,
                          rule_based_book_filter(loop.heap, n, target_category),
                          "fallback", <<"error">>, loop.encode_calls)
             ELSE LET sorted == SortByScore(loop.heap, loop.matching, 1, <<>>)
                      popped == PopAll(loop.heap, sorted, 1)
                  IN Outcome(popped, n, Top5(sorted), "vector", <<>>, loop.encode_calls)

(***************************************************************************)
(* State machine                                                           *)
(***************************************************************************)
NoCall == [op |-> "none"]

Init ==
  /\ SEMANTIC_AVAILABLE = FALSE
  /\ model = None
  /\ category_embeddings = <<>>
  /\ pc = "import"
  /\ call = NoCall
  /\ init_failed = FALSE
  /\ call_failed = FALSE
  /\ requests = [r \in 1..MaxRequests |-> [kind |-> None, at |-> "none"]]
  /\ running = {}

\* module import: sentence_transformers and sklearn are importable or not
ImportLibs ==
  /\ pc = "import"
  /\ SEMANTIC_AVAILABLE' \in BOOLEAN
  /\ pc' = "construct"
  /\ init_failed' = ~SEMANTIC_AVAILABLE'
  /\ UNCHANGED <<model, category_embeddings, call, call_failed, requests, running>>

\* __init__ without the libraries
RuleOnlyStart ==
  /\ pc = "construct"
  /\ ~SEMANTIC_AVAILABLE
  /\ pc' = "ready"
  /\ UNCHANGED <<SEMANTIC_AVAILABLE, model, category_embeddings, call,
                 init_failed, call_failed, requests, running>>

\* __init__: SentenceTransformer('all-MiniLM-L6-v2') loads or raises
LoadModel ==
  /\ pc = "construct"
  /\ SEMANTIC_AVAILABLE
  /\ \E ok \in BOOLEAN :
       IF ok THEN model' = "loaded" /\ pc' = "embed" /\ UNCHANGED init_failed
             ELSE model' = None /\ pc' = "ready" /\ init_failed' = TRUE
  /\ UNCHANGED <<SEMANTIC_AVAILABLE, category_embeddings, call, call_failed, requests, running>>

\* variant: the except branch leaves self.model as loaded
EmbedCategory_keeps_model ==
  /\ pc = "embed"
  /\ Len(category_embeddings) < Len(CategoryOrder)
  /\ \E ok \in BOOLEAN :
       IF ok
       THEN /\ category_embeddings' =
                 Append(category_embeddings, CategoryOrder[Len(category_embeddings) + 1])
            /\ UNCHANGED <<model, pc, init_failed>>
       ELSE /\ pc' = "ready"
            /\ init_failed' = TRUE
            /\ UNCHANGED <<model, category_embeddings>>
  /\ UNCHANGED <<SEMANTIC_AVAILABLE, call, call_failed, requests, running>>

\* one iteration of the loop of _initialize_category_embeddings; when
\* encode raises, the except branch of __init__ sets self.model = None
EmbedCategory ==
  /\ pc = "embed"
  /\ Len(category_embeddings) < Len(CategoryOrder)
  /\ \E ok \in BOOLEAN :
       IF ok
       THEN /\ category_embeddings' =
                 Append(category_embeddings, CategoryOrder[Len(category_embeddings) + 1])
            /\ UNCHANGED <<model, pc, init_failed>>
       ELSE /\ model' = None
            /\ pc' = "ready"
            /\ init_failed' = TRUE
            /\ UNCHANGED category_embeddings
  /\ UNCHANGED <<SEMANTIC_AVAILABLE, call, call_failed, requests, running>>

\* the loop is over: __init__ logs success and returns
InitDone ==
  /\ pc = "embed"
  /\ Len(category_embeddings) = Len(CategoryOrder)
  /\ pc' = "ready"
  /\ UNCHANGED <<SEMANTIC_AVAILABLE, model, category_embeddings, call,
                 init_failed, call_failed, requests, running>>

VectorMode == SEMANTIC_AVAILABLE /\ model # None

\* variant: a failing encode switches the classifier to rule-only mode
ClassifyAcademicQuery_degrading ==
  /\ pc = "ready"
  /\ call = NoCall
  /\ \E query \in Queries, threshold \in Thresholds :
       \E encoded \in IF VectorMode THEN Embeddings \cup {EncodeError}
                                   ELSE {EncodeError} :
         LET out == classify_academic_query(SEMANTIC_AVAILABLE, model,
                      category_embeddings, query, threshold, encoded)
         IN /\ call' = [op |-> "classify", query |-> query, threshold |-> threshold,
                        encoded |-> encoded, out |-> out]
            /\ call_failed' = (call_failed \/ out.path = "fallback")
            /\ model' = IF out.path = "fallback" THEN None ELSE model
  /\ UNCHANGED <<SEMANTIC_AVAILABLE, category_embeddings, pc, init_failed, requests, running>>

ClassifyAcademicQuery ==
  /\ pc = "ready"
  /\ call = NoCall
  /\ \E query \in Queries, threshold \in Thresholds :
       \E encoded \in IF VectorMode THEN Embeddings \cup {EncodeError}
                                   ELSE {EncodeError} :  \* not consulted
         LET out == classify_academic_query(SEMANTIC_AVAILABLE, model,
                      category_embeddings, query, threshold, encoded)
         IN /\ call' = [op |-> "classify", query |-> query, threshold |-> threshold,
                        encoded |-> encoded, out |-> out]
            /\ call_failed' = (call_failed \/ out.path = "fallback")
  /\ UNCHANGED <<SEMANTIC_AVAILABLE, model, category_embeddings, pc, init_failed, requests, running>>

\* the outcomes of encode for the non-blank texts of a list of items
EncodeOutcomes(books) ==
  [{BookText(books[i]) : i \in {j \in 1..Len(books) : ~IsBlank(BookText(books[j]))}}
     -> BookOutcomes]

\* variant: a failing encode empties the store
FindBooksBySemanticCategory_resetting ==
  /\ pc = "ready"
  /\ call = NoCall
  /\ \E books \in BookLists, target_category \in TargetCategories,
        threshold \in BookThresholds :
       \E encode \in IF VectorMode /\ target_category \in Categories
                     THEN EncodeOutcomes(books)
                     ELSE {<<>>} :
         LET out == find_books_by_semantic_category(SEMANTIC_AVAILABLE, model,
                      category_embeddings, books, target_category, threshold, encode)
         IN /\ call' = [op |-> "find_books", books |-> books,
                        target_category |-> target_category, threshold |-> threshold,
                        encode |-> encode, out |-> out]
            /\ call_failed' = (call_failed \/ out.path = "fallback")
            /\ category_embeddings' =
                 IF out.path = "fallback" THEN <<>> ELSE category_embeddings
  /\ UNCHANGED <<SEMANTIC_AVAILABLE, model, pc, init_failed, requests, running>>

FindBooksBySemanticCategory ==
  /\ pc = "ready"
  /\ call = NoCall
  /\ \E books \in BookLists, target_category \in TargetCategories,
        threshold \in BookThresholds :
       \E encode \in IF VectorMode /\ target_category \in Categories
                     THEN EncodeOutcomes(books)
                     ELSE {<<>>} :  \* encode is not called
         LET out == find_books_by_semantic_category(SEMANTIC_AVAILABLE, model,
                      category_embeddings, books, target_category, threshold, encode)
         IN /\ call' = [op |-> "find_books", books |-> books,
                        target_category |-> target_category, threshold |-> threshold,
                        encode |-> encode, out |-> out]
            /\ call_failed' = (call_failed \/ out.path = "fallback")
  /\ UNCHANGED <<SEMANTIC_AVAILABLE, model, category_embeddings, pc, init_failed, requests, running>>

DetectStudentScenario ==
  /\ pc = "ready"
  /\ call = NoCall
  /\ \E query \in DetectQueries :
       call' = [op |-> "detect", query |-> query,
                out |-> detect_student_scenario(query)]
  /\ UNCHANGED <<SEMANTIC_AVAILABLE, model, category_embeddings, pc,
                 init_failed, call_failed, requests, running>>

GetContextualRecommendations ==
  /\ pc = "ready"
  /\ call = NoCall
  /\ \E category \in Categories \cup {"unknown_category"},
        scenario \in {ScenarioOrder[i] : i \in 1..Len(ScenarioOrder)} \cup {None} :
       call' = [op |-> "recommend", category |-> category, scenario |-> scenario,
                out |-> get_contextual_recommendations(category, scenario)]
  /\ UNCHANGED <<SEMANTIC_AVAILABLE, model, category_embeddings, pc,
                 init_failed, call_failed, requests, running>>

\* the caller has taken the returned value
Return ==
  /\ call # NoCall
  /\ call' = NoCall
  /\ UNCHANGED <<SEMANTIC_AVAILABLE, model, category_embeddings, pc,
                 init_failed, call_failed, requests, running>>

Next ==
  \/ ImportLibs
  \/ RuleOnlyStart
  \/ LoadModel
  \/ EmbedCategory
  \/ InitDone
  \/ ClassifyAcademicQuery
  \/ FindBooksBySemanticCategory
  \/ DetectStudentScenario
  \/ GetContextualRecommendations
  \/ Return

Spec == Init /\ [][Next]_vars

(***************************************************************************)
(* main.py: the request handlers are coroutines on one event loop thread.  *)
(* A handler runs from the point where it is resumed to its next await or  *)
(* its return; running holds the request whose handler is running.            *)
(***************************************************************************)
Requests == 1..MaxRequests

classifier == <<SEMANTIC_AVAILABLE, model, category_embeddings, pc, call,
                init_failed, call_failed>>

\* a request arrives: POST /api/v1/chatbot/message or GET /health
Arrive(r) ==
  /\ pc = "ready"
  /\ requests[r].at = "none"
  /\ \E kind \in {"chat", "health"} :
       requests' = [requests EXCEPT ![r] = [kind |-> kind, at |-> "queued"]]
  /\ UNCHANGED <<classifier, running>>

\* health_check runs to its return
ServeHealth(r) ==
  /\ requests[r] = [kind |-> "health", at |-> "queued"]
  /\ running = {}
  /\ requests' = [requests EXCEPT ![r].at = "done"]
  /\ UNCHANGED <<classifier, running>>

\* chatbot_message runs up to  await get_products_from_backend()
StartChat(r) ==
  /\ requests[r] = [kind |-> "chat", at |-> "queued"]
  /\ running = {}
  /\ requests' = [requests EXCEPT ![r].at = "fetching"]
  /\ UNCHANGED <<classifier, running>>

\* the HTTP response of the catalog provider has arrived
ProductsFetched(r) ==
  /\ requests[r].at = "fetching"
  /\ requests' = [requests EXCEPT ![r].at = "fetched"]
  /\ UNCHANGED <<classifier, running>>

\* the handler is resumed and calls classify_academic_query, which calls
\* self.model.encode(query) on the vector path
ResumeChat(r) ==
  /\ requests[r].at = "fetched"
  /\ running = {}
  /\ running' = {r}
  /\ requests' = [requests EXCEPT
                    ![r].at = IF VectorMode THEN "encoding_query" ELSE "classified"]
  /\ UNCHANGED classifier

\* encode has returned or raised; classify_academic_query returns
QueryEncoded(r) ==
  /\ requests[r].at = "encoding_query"
  /\ requests' = [requests EXCEPT ![r].at = "classified"]
  /\ UNCHANGED <<classifier, running>>

\* detect_student_scenario, then one of the branches: a branch that calls
\* find_books_by_semantic_category reaches self.model.encode(book_text) on
\* the vector path; the last branch answers without a search
MatchBooks(r) ==
  /\ requests[r].at = "classified"
  /\ \E at \in {IF VectorMode THEN "encoding_books" ELSE "matched", "answering"} :
       requests' = [requests EXCEPT ![r].at = at]
  /\ UNCHANGED <<classifier, running>>

\* the encode calls of find_books_by_semantic_category are over
BooksEncoded(r) ==
  /\ requests[r].at = "encoding_books"
  /\ requests' = [requests EXCEPT ![r].at = "matched"]
  /\ UNCHANGED <<classifier, running>>

\* return {"response": response}
Respond(r) ==
  /\ requests[r].at \in {"matched", "answering"}
  /\ running = {r}
  /\ running' = {}
  /\ requests' = [requests EXCEPT ![r].at = "done"]
  /\ UNCHANGED classifier

NextServer ==
  \/ ImportLibs
  \/ RuleOnlyStart
  \/ LoadModel
  \/ EmbedCategory
  \/ InitDone
  \/ \E r \in Requests : Arrive(r)
  \/ \E r \in Requests : ServeHealth(r)
  \/ \E r \in Requests : StartChat(r)
  \/ \E r \in Requests : ProductsFetched(r)
  \/ \E r \in Requests : ResumeChat(r)
  \/ \E r \in Requests : QueryEncoded(r)
  \/ \E r \in Requests : MatchBooks(r)
  \/ \E r \in Requests : BooksEncoded(r)
  \/ \E r \in Requests : Respond(r)

SpecServer == Init /\ [][NextServer]_vars

(***************************************************************************)
(* Properties                                                              *)
(***************************************************************************)
IsClassify == call.op = "classify"

IsFindBooks == call.op = "find_books"

\* k occurs in s when upper and lower case are not distinguished
OccursIgnoringCase(k, s) ==
  \E i \in 1..(Len(s) - Len(k) + 1) : Lower(SubSeq(s, i, i + Len(k) - 1)) = Lower(k)

MaxScore(v) == CHOOSE m \in {v[c] : c \in Categories} : \A c \in Categories : v[c] <= m

Least(S) == CHOOSE i \in S : \A j \in S : i <= j

\* C1: on the vector path the call returns the category with the maximum
\* similarity and that similarity when the maximum reaches the threshold, and
\* (absent, the maximum) otherwise, also when no similarity is positive.
C1_MaximumSelected ==
  (IsClassify /\ call.out.path = "vector") =>
    LET v == call.encoded.vector
        M == MaxScore(v)
        r == call.out.result
    IN IF M >= call.threshold
       THEN r[1] \in Categories /\ v[r[1]] = M /\ r[2] = M
       ELSE r = <<None, M>>

\* the rule order the specification documents
DocumentedRuleOrder ==
  <<"medicina", "ingenieria_software", "matematicas", "derecho", "administracion">>

\* C2: in rule-only mode the call returns the first category of the documented
\* rule order one of whose rule keywords occurs in the query, case ignored,
\* with confidence 0.8, and (absent, 0.0) when no rule keyword occurs; the
\* python query of the specification yields (ingenieria_software, 0.8).
C2_RuleOnlyFirstMatch ==
  (IsClassify /\ ~VectorMode) =>
    LET hits == {i \in 1..Len(DocumentedRuleOrder) :
                   \E j \in 1..Len(rules[DocumentedRuleOrder[i]]) :
                     OccursIgnoringCase(rules[DocumentedRuleOrder[i]][j], call.query)}
    IN /\ call.out.result =
            IF hits = {} THEN <<None, 0>> ELSE <<DocumentedRuleOrder[Least(hits)], 80>>
       /\ call.query = "necesito un libro de programación en python"
            => call.out.result = <<"ingenieria_software", 80>>

C2_Witness ==
  /\ IsClassify
  /\ ~VectorMode
  /\ call.query = "necesito un libro de programación en python"
  /\ call.out.result = <<"ingenieria_software", 80>>

C4_TieFirstInserted ==
  (IsClassify /\ call.out.path = "vector") =>
    LET v == call.encoded.vector
        M == MaxScore(v)
        ties == {k \in 1..Len(category_embeddings) : v[category_embeddings[k]] = M}
    IN (Cardinality(ties) >= 2 /\ M >= call.threshold)
         => call.out.result = <<category_embeddings[Least(ties)], M>>

\* C5: find_books_by_semantic_category returns at most 5 items on the vector
\* path, in rule-only mode and after a failure of the vector path.
C5_AtMostFive ==
  IsFindBooks => Len(call.out.result) <= 5

C5_Witness ==
  /\ IsFindBooks
  /\ call.out.path = "fallback"
  /\ Len(call.books) > 5
  /\ Len(call.out.result) = 5

\* C6: every returned item has exactly the fields and values of the input
\* item it was derived from, also when that item carries a field named
\* '_semantic_score'.
C6_ReturnedAsGiven ==
  IsFindBooks =>
    \A j \in 1..Len(call.out.result) :
      call.out.result[j] = call.books[call.out.origin[j]]

\* C7: for a category that is not a known category the call returns an empty
\* sequence and logs a warning, with the backend available and in rule-only
\* mode.
C7_UnknownCategoryWarned ==
  (IsFindBooks /\ call.target_category \notin Categories) =>
    /\ call.out.result = <<>>
    /\ \E k \in 1..Len(call.out.log) : call.out.log[k] = "warning"

\* the keyword test of the rule path as the specification states it
KeywordOccurs ==
  [t \in CatalogTexts |->
     [c \in Categories |->
        \E j \in 1..Len(academic_categories[c]) :
          OccursIgnoringCase(academic_categories[c][j], t)]]

\* the call runs without a usable vector path
NoVectorPath ==
  \/ ~VectorMode
  \/ \E t \in DOMAIN call.encode : ~call.encode[t].ok

\* C8: without a usable vector path the result is the first 5, in input
\* order, of the input items whose text contains a keyword of the category
\* (case ignored); the returned objects are input objects, and nothing of a
\* partly run vector loop is mixed in.
C8_RulePathResult ==
  (IsFindBooks /\ NoVectorPath) =>
    LET keep == {i \in 1..Len(call.books) :
                   /\ call.target_category \in Categories
                   /\ KeywordOccurs[BookText(call.books[i])][call.target_category]}
        n == IF Cardinality(keep) < 5 THEN Cardinality(keep) ELSE 5
        ids == call.out.result_ids
    IN /\ Len(ids) = n
       /\ \A j \in 1..n :
            /\ ids[j] \in keep
            /\ Cardinality({i \in keep : i < ids[j]}) = j - 1
            /\ call.out.result[j] = call.books[ids[j]]

C8_Witness ==
  /\ IsFindBooks
  /\ call.out.path = "fallback"
  /\ call.out.encode_calls >= 2
  /\ Len(call.out.result) >= 1
  /\ Len(call.out.result) < Len(call.books)

\* C9: a call leaves the caller's item sequence as it was: same length, same
\* order, every item with the same fields and values.
C9_InputsUnchanged ==
  IsFindBooks => call.out.books_after = call.books

C9_Witness ==
  /\ IsFindBooks
  /\ call.out.path = "vector"
  /\ \E j \in 1..Len(call.out.result) :
       "_semantic_score" \in DOMAIN call.books[call.out.origin[j]]

\* C10: with the items, the category and the backend fixed, a higher
\* threshold never returns more items.
C10_ThresholdMonotone ==
  (IsFindBooks /\ VectorMode /\ call.target_category \in Categories) =>
    \A t2 \in BookThresholds :
      call.threshold <= t2 =>
        Len(find_books_by_semantic_category(SEMANTIC_AVAILABLE, model,
              category_embeddings, call.books, call.target_category, t2,
              call.encode).result)
          <= Len(call.out.result)

C10_Witness ==
  /\ IsFindBooks
  /\ call.out.path = "vector"
  /\ \E t2 \in BookThresholds :
       /\ call.threshold < t2
       /\ Len(find_books_by_semantic_category(SEMANTIC_AVAILABLE, model,
                category_embeddings, call.books, call.target_category, t2,
                call.encode).result)
            < Len(call.out.result)

IsDetect == call.op = "detect"

\* the scenario order the specification documents
DocumentedScenarioOrder ==
  <<"pregrado_inicio", "práctica_laboratorio", "investigación",
    "profesionalización", "especialización">>

\* C11: detect_student_scenario returns the first scenario of the documented
\* order one of whose keywords occurs in the query, case ignored, and absent
\* when none occurs ("hola"); the result is the same whatever the state of
\* the embedding backend.
C11_FirstScenarioMatch ==
  IsDetect =>
    LET hits == {i \in 1..Len(DocumentedScenarioOrder) :
                   \E j \in 1..Len(student_scenarios[DocumentedScenarioOrder[i]]) :
                     OccursIgnoringCase(student_scenarios[DocumentedScenarioOrder[i]][j],
                                        call.query)}
    IN /\ call.out = IF hits = {} THEN None ELSE DocumentedScenarioOrder[Least(hits)]
       /\ call.query = "hola" => call.out = None

C11_Witness ==
  /\ IsDetect
  /\ VectorMode
  /\ call.query = "TESIS de Maestría"
  /\ call.out = "investigación"

\* C20: every scenario keyword is effective: the query that consists of
\* exactly a keyword of a scenario is detected as that scenario.
C20_EveryKeywordEffective ==
  IsDetect =>
    \A sc \in DOMAIN student_scenarios :
      \A j \in 1..Len(student_scenarios[sc]) :
        call.query = student_scenarios[sc][j] => call.out = sc

IsRecommend == call.op = "recommend"

\* the (category, scenario) pairs that have a tip template
TemplatePairs ==
  {<<"ingenieria_software", "pregrado_inicio">>,
   <<"ingenieria_software", "práctica_laboratorio">>,
   <<"enfermeria", "práctica_laboratorio">>,
   <<"medicina", "investigación">>,
   <<"odontologia", "práctica_laboratorio">>,
   <<"derecho", "profesionalización">>}

\* the categories that have a category-level template
TemplateCategories == {p[1] : p \in TemplatePairs}

\* C12: get_contextual_recommendations echoes the category and the scenario;
\* the tips are those of the template when the pair has one (for medicina and
\* investigación the three tips of the source) and empty otherwise, while the
\* category-level lists are returned all the same; for an unknown category all
\* three lists are empty.
C12_TotalLookup ==
  IsRecommend =>
    LET out == call.out
        pair == <<call.category, call.scenario>>
    IN /\ out.category = call.category
       /\ out.scenario = call.scenario
       /\ (pair \in TemplatePairs) <=> (out.tips # <<>>)
       /\ pair = <<"medicina", "investigación">> =>
            out.tips = <<"Busca libros de investigación médica",
                         "Considera equipos para ayudas diagnósticas",
                         "Material de inglés médico puede ser útil">>
       /\ call.category \in TemplateCategories =>
            /\ Len(out.related_subjects) = 3
            /\ Len(out.typical_products) = 3
       /\ call.category \notin Categories =>
            /\ out.tips = <<>>
            /\ out.related_subjects = <<>>
            /\ out.typical_products = <<>>

C12_Witness ==
  /\ IsRecommend
  /\ call.category = "medicina"
  /\ call.scenario = None
  /\ call.out.tips = <<>>
  /\ call.out.related_subjects = <<"Semiología", "Fisiología", "Farmacología">>

\* C13: when the backend was unavailable or raised during initialization,
\* construction still ends, every later classify_academic_query and
\* find_books_by_semantic_category call takes the rule path without calling
\* the backend, and initialization is not entered again.
C13_PermanentRuleOnly ==
  /\ [](init_failed =>
          /\ pc = "ready" => ~VectorMode
          /\ (IsClassify \/ IsFindBooks) =>
               (call.out.path = "rule" /\ call.out.encode_calls = 0))
  /\ [][pc = "ready" => pc' = "ready"]_vars

C13_Witness ==
  /\ init_failed
  /\ SEMANTIC_AVAILABLE
  /\ Len(category_embeddings) >= 1
  /\ IsFindBooks
  /\ call.out.path = "rule"
  /\ Len(call.out.result) >= 1

\* C14: when the backend raised during initialization, also after some
\* category vectors were computed, the store is empty once initialization has
\* finished, and stays empty.
C14_StoreEmptyAfterFailure ==
  (init_failed /\ pc = "ready") => category_embeddings = <<>>

\* C15: a classify_academic_query call whose encode fails returns the
\* rule-based classification of the query, and the failure switches no mode:
\* a call whose encode succeeds takes the vector path, also after failures.
C15_PerCallFallback ==
  IsClassify =>
    LET hits == {i \in 1..Len(DocumentedRuleOrder) :
                   \E j \in 1..Len(rules[DocumentedRuleOrder[i]]) :
                     OccursIgnoringCase(rules[DocumentedRuleOrder[i]][j], call.query)}
    IN /\ (call.out.encode_calls = 1 /\ ~call.encoded.ok) =>
            /\ call.out.result =
                 IF hits = {} THEN <<None, 0>>
                 ELSE <<DocumentedRuleOrder[Least(hits)], 80>>
            /\ VectorMode
       /\ (~init_failed /\ call.encoded.ok) => call.out.path = "vector"

C15_Witness ==
  /\ IsClassify
  /\ call_failed
  /\ call.encoded.ok
  /\ call.out.path = "vector"

\* C16: once initialization has finished no call writes the model reference
\* or the store (the keyword sets are constants of the model), so a call's
\* result is the same wherever it falls in an interleaving of calls.
C16_CoreStateReadOnly ==
  [][pc = "ready" =>
       /\ SEMANTIC_AVAILABLE' = SEMANTIC_AVAILABLE
       /\ model' = model
       /\ category_embeddings' = category_embeddings]_vars

C16_Witness ==
  /\ pc = "ready"
  /\ call_failed
  /\ IsFindBooks
  /\ call.out.path = "vector"
  /\ Len(category_embeddings) = Len(CategoryOrder)

\* C19: a category that is not absent comes with a confidence that is at
\* least the threshold the caller passed, on every path.
C19_ConfidenceReachesThreshold ==
  (IsClassify /\ call.out.result[1] # None) => call.out.result[2] >= call.threshold

\* the call runs the vector loop to its end
VectorPathCompleted ==
  /\ IsFindBooks
  /\ VectorMode
  /\ call.target_category \in Categories
  /\ \A t \in DOMAIN call.encode : call.encode[t].ok

\* similarity of the i-th input item to the target category
ItemScore(i) == call.encode[BookText(call.books[i])].vector[call.target_category]

\* C18: on the vector path the result consists of the items with non-blank
\* text whose similarity reaches the threshold, by descending similarity,
\* items of equal similarity in input order, cut to the first 5; items with
\* blank text are skipped.
C18_VectorPathRanking ==
  VectorPathCompleted =>
    LET kept == {i \in 1..Len(call.books) :
                   /\ ~IsBlank(BookText(call.books[i]))
                   /\ ItemScore(i) >= call.threshold}
        Before(i, k) == \/ ItemScore(i) > ItemScore(k)
                        \/ ItemScore(i) = ItemScore(k) /\ i < k
        n == IF Cardinality(kept) < 5 THEN Cardinality(kept) ELSE 5
        origin == call.out.origin
    IN /\ Len(origin) = n
       /\ \A j \in 1..n :
            /\ origin[j] \in kept
            /\ Cardinality({i \in kept : Before(i, origin[j])}) = j - 1

C18_Witness ==
  /\ VectorPathCompleted
  /\ \E i \in 1..Len(call.books) : IsBlank(BookText(call.books[i]))
  /\ \E j \in 1..(Len(call.out.origin) - 1) :
       /\ ItemScore(call.out.origin[j]) = ItemScore(call.out.origin[j + 1])
       /\ call.out.origin[j] < call.out.origin[j + 1]
  /\ \E j \in 1..(Len(call.out.origin) - 1) :
       /\ ItemScore(call.out.origin[j]) > ItemScore(call.out.origin[j + 1])
       /\ call.out.origin[j] > call.out.origin[j + 1]

\* C17: while one request is inside an embedding call, every other request
\* whose handler is ready to run can take its next step.
C17_OthersCanRun ==
  \A r \in Requests, other \in Requests :
    (/\ r # other
     /\ requests[r].at \in {"encoding_query", "encoding_books"}
     /\ requests[other].at \in {"queued", "fetched"})
      => ENABLED (ServeHealth(other) \/ StartChat(other) \/ ResumeChat(other))

====
